---- MODULE Spec2Model ----
(***************************************************************************)
(* Model of the runtime artifacts that generate() emits for a map of named *)
(* types (src/src/lib/generator.ts): for every name a binding with         *)
(* validate(value, options) and create(value), whose bodies are the text   *)
(* produced by generateTypeValidator and generateTypeSanitizer.            *)
(*                                                                         *)
(* JavaScript values are records with the same four fields, so that any    *)
(* two of them can be compared:                                            *)
(*   k      the runtime tag ("undefined", "null", "boolean", "number",     *)
(*          "string", "array", "object")                                   *)
(*   p      the payload of a primitive, as text                            *)
(*   items  the elements of an array                                       *)
(*   props  the own enumerable properties of an object, <<key, value>>     *)
(*          pairs in insertion order (the order Object.keys reports)       *)
(***************************************************************************)
EXTENDS Integers, Sequences, FiniteSets, TLC

VARIABLES types, target, input, phase, options, catcher, vres, cres, created

vars == <<types, target, input, phase, options, catcher, vres, cres, created>>

(* ---------------------------------------------------------------- bounds *)

\* Deepest nesting of objects among the input values.
MaxDepth == 3

\* Longest array among the input values.
MaxLen == 2

(* ---------------------------------------------------------------- values *)

Prim(k, p) == [k |-> k, p |-> p, items |-> <<>>, props |-> <<>>]

Undef == Prim("undefined", "")

Null == Prim("null", "")

True == Prim("boolean", "true")

Num0 == Prim("number", "0")

Num5 == Prim("number", "5")

StrX == Prim("string", "x")

Str0 == Prim("string", "0")

Arr(items) == [k |-> "array", p |-> "", items |-> items, props |-> <<>>]

Obj(props) == [k |-> "object", p |-> "", items |-> <<>>, props |-> props]

\* The decimal text of a small index, as i.toString(10) and as the keys of
\* an array.
IndexStr(i) == <<"0", "1", "2", "3", "4", "5", "6", "7">>[i + 1]

\* Object.keys(v): the own enumerable keys, in order.
ObjectKeys(v) ==
  IF v.k = "array" THEN [i \in 1..Len(v.items) |-> IndexStr(i - 1)]
  ELSE [i \in 1..Len(v.props) |-> v.props[i][1]]

\* v[name] for a name that is no array index: the property's value, or
\* undefined when the object has no such property.
Get(v, name) ==
  IF \E i \in 1..Len(v.props) : v.props[i][1] = name
  THEN v.props[CHOOSE i \in 1..Len(v.props) : v.props[i][1] = name][2]
  ELSE Undef

(* ----------------------------------------------------------------- types *)

TAlias(name) == [kind |-> "alias", name |-> name]

TAny == [kind |-> "any"]

TArray(type) == [kind |-> "array", type |-> type]

TBoolean == [kind |-> "boolean"]

TLiteral(value) == [kind |-> "literal", value |-> value]

TNull == [kind |-> "null"]

TNumber == [kind |-> "number"]

TObject(properties) == [kind |-> "object", properties |-> properties]

TString == [kind |-> "string"]

TUndefined == [kind |-> "undefined"]

TUnion(members) == [kind |-> "union", types |-> members]

\* One entry of Record<string, ObjectProperty>.
Property(name, type, required) ==
  [name |-> name, type |-> type, required |-> required]

\* The map handed to generate(), as Object.entries lists it.  No type of it
\* puts an array directly in an array or a union in the text of a union
\* member: the text generated for those reuses the name `item` and the
\* label `union`.  Never has no member; Dangling names a type that is not
\* declared.
TypesDeclared ==
  << [name |-> "Obj",
      type |-> TObject(<< Property("a", TNumber, TRUE),
                          Property("b", TNumber, FALSE) >>)],
     [name |-> "A", type |-> TAlias("B")],
     [name |-> "B",
      type |-> TObject(<< Property("a", TAlias("A"), FALSE) >>)],
     [name |-> "Nested",
      type |-> TObject(<< Property("b", TNumber, TRUE),
                          Property("a",
                            TObject(<< Property("b", TNumber, FALSE) >>),
                            TRUE) >>)],
     [name |-> "BoolNum", type |-> TUnion(<< TBoolean, TNumber >>)],
     [name |-> "Lit0", type |-> TLiteral(Num0)],
     [name |-> "List", type |-> TArray(TAlias("Obj"))],
     [name |-> "Loose", type |-> TObject(<< Property("a", TAny, TRUE) >>)],
     [name |-> "StrOrObj",
      type |-> TUnion(<< TString,
                         TObject(<< Property("a", TNumber, FALSE) >>) >>)],
     [name |-> "Shapes",
      type |-> TUnion(<< TObject(<< Property("a", TNumber, TRUE) >>),
                         TObject(<< Property("a", TNumber, TRUE),
                                    Property("c", TNumber, TRUE) >>) >>)],
     [name |-> "NumOrB", type |-> TUnion(<< TNumber, TAlias("B") >>)],
     [name |-> "Opt", type |-> TUnion(<< TNull, TUndefined, TString >>)],
     [name |-> "Holder",
      type |-> TObject(<< Property("a",
                            TUnion(<< TObject(<< Property("b", TNumber, FALSE) >>),
                                      TString >>),
                            FALSE) >>)],
     [name |-> "Never", type |-> TUnion(<< >>)],
     [name |-> "Dangling", type |-> TUnion(<< TAlias("Missing"), TNumber >>)] >>

\* The same map with its entries declared in the opposite order.
TypesReversed ==
  [i \in 1..Len(TypesDeclared) |-> TypesDeclared[Len(TypesDeclared) + 1 - i]]

\* The names bound by the generated module.
Names == {types[i].name : i \in 1..Len(types)}

\* The type a name was generated from.
TypeOf(name) == types[CHOOSE i \in 1..Len(types) : types[i].name = name].type

(* ------------------------------------------------------ failure signals *)

\* The message argument of fail(): the dotted path, the problem and, for an
\* undeclared key, the key appended to it.  The dump of the value that
\* fail() adds after ":\n" is not represented.
Message(path, problem, key) == [path |-> path, problem |-> problem, key |-> key]

\* The empty text '' (the error of a fresh catcher, the default message of
\* ValidationError).
NoMessage == Message(<<>>, "", "")

\* An entry of the record of what one check did:
\*   "trial"  a union member is tried, at the member's path
\*   "key"    an object is found to own a key outside its declared set
\*   "call"   an alias hands the value to the named binding's validate
\* scope counts the union trials that enclose the entry.
Event(ev, path, key) == [ev |-> ev, path |-> path, key |-> key, scope |-> 0]

\* The entries of a member's check, seen from outside the trial.
InTrial(trace) == [i \in 1..Len(trace) |-> [trace[i] EXCEPT !.scope = @ + 1]]

\* The check ran to its end without throwing.
Pass(trace) == [st |-> "ok", msg |-> NoMessage, fault |-> "", trace |-> trace]

\* fail(message, value): throws a ValidationError.
Fail(path, problem, key, trace) ==
  [st |-> "fail", msg |-> Message(path, problem, key), fault |-> "",
   trace |-> trace]

\* Something that is no ValidationError is thrown (a ReferenceError for a
\* name that is not in scope, a TypeError, the value null).
Fault(fault, trace) ==
  [st |-> "fault", msg |-> NoMessage, fault |-> fault, trace |-> trace]

\* The values allowAdditionalProperties takes.  "unbound" is the name read
\* in create(), which declares no such variable.
Flags == {"true", "false", "unset"}

Unbound == "unbound"

\* !allowAdditionalProperties
Falsy(allow) == allow \in {"false", "unset"}

\* typeof(v) !== 'object' || v === null
NotAnObject(v) == v.k \notin {"object", "array"}

(* ------------------------------------------------------------- validator *)

RECURSIVE Check(_, _, _, _)
RECURSIVE CheckItems(_, _, _, _, _)
RECURSIVE CheckProperties(_, _, _, _, _)
RECURSIVE CheckUnion(_, _, _, _, _, _, _)
RECURSIVE ValidateBinding(_, _, _, _)

\* A primitive's test: typeof or identity, else fail("<path> is not ...").
CheckPrimitive(kind, v, path) ==
  CASE kind = "boolean" ->
         IF v.k # "boolean" THEN Fail(path, "is not a boolean", "", <<>>)
         ELSE Pass(<<>>)
    [] kind = "null" ->
         IF v # Null THEN Fail(path, "is not null", "", <<>>) ELSE Pass(<<>>)
    [] kind = "number" ->
         IF v.k # "number" THEN Fail(path, "is not a number", "", <<>>)
         ELSE Pass(<<>>)
    [] kind = "string" ->
         IF v.k # "string" THEN Fail(path, "is not a string", "", <<>>)
         ELSE Pass(<<>>)
    [] kind = "undefined" ->
         IF v # Undef THEN Fail(path, "is not undefined", "", <<>>)
         ELSE Pass(<<>>)

\* CheckAlias as it would be if the call passed no options on: the binding
\* behind the alias then sees allowAdditionalProperties unset.
CheckAliasDroppingFlag(name, v, allow) ==
  IF allow = Unbound \/ name \notin Names THEN Fault("ReferenceError", <<>>)
  ELSE LET o == ValidateBinding(name, v, FALSE, "unset")
           trace == <<Event("call", <<name>>, "")>> \o o.trace
       IN IF o.ret = "raise"
          THEN [st |-> o.st, msg |-> o.msg, fault |-> o.fault, trace |-> trace]
          ELSE Pass(trace)

\* case "alias": Name.validate(value, { allowAdditionalProperties }); the
\* value it returns is dropped, what it throws goes on.
CheckAlias(name, v, allow) ==
  IF allow = Unbound \/ name \notin Names THEN Fault("ReferenceError", <<>>)
  ELSE LET o == ValidateBinding(name, v, FALSE, allow)
           trace == <<Event("call", <<name>>, "")>> \o o.trace
       IN IF o.ret = "raise"
          THEN [st |-> o.st, msg |-> o.msg, fault |-> o.fault, trace |-> trace]
          ELSE Pass(trace)

\* case "array": the loop over the items, from item i on.
CheckItems(type, items, i, allow, path) ==
  IF i > Len(items) THEN Pass(<<>>)
  ELSE LET r == Check(type, items[i], allow, path)
       IN IF r.st # "ok" THEN r
          ELSE LET rest == CheckItems(type, items, i + 1, allow, path)
               IN [rest EXCEPT !.trace = r.trace \o @]

\* CheckProperties as it would be if the test for an absent optional
\* property were not generated: every property is checked.
CheckPropertiesAllRequired(properties, i, v, allow, path) ==
  IF i > Len(properties) THEN Pass(<<>>)
  ELSE LET property == properties[i]
           r == Check(property.type, Get(v, property.name), allow,
                      Append(path, property.name))
       IN IF r.st # "ok" THEN r
          ELSE LET rest == CheckProperties(properties, i + 1, v, allow, path)
               IN [rest EXCEPT !.trace = r.trace \o @]

\* case "object": the checks generated for the properties, from entry i on.
CheckProperties(properties, i, v, allow, path) ==
  IF i > Len(properties) THEN Pass(<<>>)
  ELSE LET property == properties[i]
           r == IF ~property.required /\ Get(v, property.name) = Undef
                THEN Pass(<<>>)
                ELSE Check(property.type, Get(v, property.name), allow,
                           Append(path, property.name))
       IN IF r.st # "ok" THEN r
          ELSE LET rest == CheckProperties(properties, i + 1, v, allow, path)
               IN [rest EXCEPT !.trace = r.trace \o @]

\* case "object": the typeof test, the test of the keys when additional
\* properties are not allowed, then the properties.
CheckObject(properties, v, allow, path) ==
  IF NotAnObject(v) THEN Fail(path, "is not an object", "", <<>>)
  ELSE IF allow = Unbound THEN Fault("ReferenceError", <<>>)
  ELSE LET allowedKeys == {properties[i].name : i \in 1..Len(properties)}
           keys == ObjectKeys(v)
           extra == {i \in 1..Len(keys) : keys[i] \notin allowedKeys}
           key == keys[CHOOSE i \in extra : \A j \in extra : i <= j]
       IN IF Falsy(allow) /\ extra # {}
          THEN Fail(path, "does not allow key", key,
                    <<Event("key", path, key)>>)
          ELSE CheckProperties(properties, 1, v, allow, path)

\* CheckUnion as it would be if a catch block kept the error already
\* stored: the first member's failure is the one thrown at the end.
CheckUnionFirstError(members, i, v, allow, path, error, trace) ==
  IF i > Len(members) THEN [error EXCEPT !.trace = trace]
  ELSE LET at == Append(path, IndexStr(i - 1))
           r == Check(members[i], v, allow, at)
           done == trace \o <<Event("trial", at, "")>> \o InTrial(r.trace)
       IN CASE r.st = "ok" -> Pass(done)
            [] r.st = "fault" -> [r EXCEPT !.trace = done]
            [] r.st = "fail" ->
                 CheckUnion(members, i + 1, v, allow, path,
                            IF error.st = "fault" THEN r ELSE error, done)

\* CheckUnion as it would be if a catch block did not test what it caught:
\* anything thrown by a member sends the check to the next member.
CheckUnionCatchingAll(members, i, v, allow, path, error, trace) ==
  IF i > Len(members) THEN [error EXCEPT !.trace = trace]
  ELSE LET at == Append(path, IndexStr(i - 1))
           r == Check(members[i], v, allow, at)
           done == trace \o <<Event("trial", at, "")>> \o InTrial(r.trace)
       IN CASE r.st = "ok" -> Pass(done)
            [] OTHER -> CheckUnion(members, i + 1, v, allow, path, r, done)

\* case "union": the try blocks from member i on; error is what the last
\* catch stored (null before the first), trace what was done so far.
CheckUnion(members, i, v, allow, path, error, trace) ==
  IF i > Len(members) THEN [error EXCEPT !.trace = trace]
  ELSE LET at == Append(path, IndexStr(i - 1))
           r == Check(members[i], v, allow, at)
           done == trace \o <<Event("trial", at, "")>> \o InTrial(r.trace)
       IN CASE r.st = "ok" -> Pass(done)
            [] r.st = "fault" -> [r EXCEPT !.trace = done]
            [] r.st = "fail" ->
                 CheckUnion(members, i + 1, v, allow, path, r, done)

\* generateTypeValidator(type, value, path), run on the value v.
Check(type, v, allow, path) ==
  CASE type.kind = "alias" -> CheckAlias(type.name, v, allow)
    [] type.kind = "any" -> Pass(<<>>)
    [] type.kind = "array" ->
         IF v.k # "array" THEN Fail(path, "is not an array", "", <<>>)
         ELSE CheckItems(type.type, v.items, 1, allow, Append(path, "__item__"))
    [] type.kind = "literal" ->
         IF v # type.value THEN Fail(path, "must equal", type.value.p, <<>>)
         ELSE Pass(<<>>)
    [] type.kind = "object" -> CheckObject(type.properties, v, allow, path)
    [] type.kind = "union" ->
         CheckUnion(type.types, 1, v, allow, path, Fault("null", <<>>), <<>>)
    [] OTHER -> CheckPrimitive(type.kind, v, path)

\* The validate method of a binding: true when the check passes; a
\* ValidationError goes to the catcher when there is one (false is
\* returned) and is thrown again when there is none; anything else thrown
\* is thrown again.
ValidateBinding(name, v, errorCatcher, allow) ==
  LET r == Check(TypeOf(name), v, allow, <<name>>)
      ret == CASE r.st = "ok" -> "true"
               [] r.st = "fail" /\ errorCatcher -> "false"
               [] OTHER -> "raise"
  IN [ret |-> ret, st |-> r.st, msg |-> r.msg, fault |-> r.fault,
      trace |-> r.trace]

(* ------------------------------------------------------------- sanitizer *)

RECURSIVE Sanitize(_, _, _)
RECURSIVE SanitizeItems(_, _, _, _)
RECURSIVE SanitizeProperties(_, _, _, _, _)
RECURSIVE SanitizeUnion(_, _, _, _)
RECURSIVE CreateBinding(_, _)

\* An expression of the sanitizer evaluated to a value.
Value(v) == [st |-> "ok", value |-> v, msg |-> NoMessage, fault |-> ""]

\* An expression of the sanitizer that threw: what was thrown, no value.
Thrown(r) == [st |-> r.st, value |-> Undef, msg |-> r.msg, fault |-> r.fault]

\* case "array": (value as Array<any>).map(item => ...), from item i on.
SanitizeItems(type, items, i, path) ==
  IF i > Len(items) THEN Value(Arr(<<>>))
  ELSE LET r == Sanitize(type, items[i], path)
       IN IF r.st # "ok" THEN r
          ELSE LET rest == SanitizeItems(type, items, i + 1, path)
               IN IF rest.st # "ok" THEN rest
                  ELSE Value(Arr(<<r.value>> \o rest.value.items))

\* case "object": the assignments generated for the properties, from entry
\* i on, to the fresh object that holds `sanitized` so far.
SanitizeProperties(properties, i, v, sanitized, path) ==
  IF i > Len(properties) THEN Value(Obj(sanitized))
  ELSE LET property == properties[i]
       IN IF ~property.required /\ Get(v, property.name) = Undef
          THEN SanitizeProperties(properties, i + 1, v, sanitized, path)
          ELSE LET r == Sanitize(property.type, Get(v, property.name),
                                 Append(path, property.name))
               IN IF r.st # "ok" THEN r
                  ELSE SanitizeProperties(properties, i + 1, v,
                         Append(sanitized, <<property.name, r.value>>), path)

\* case "object": a new object that gets the declared properties only.
SanitizeObject(properties, v, path) ==
  IF v.k \in {"undefined", "null"} THEN Thrown(Fault("TypeError", <<>>))
  ELSE SanitizeProperties(properties, 1, v, <<>>, path)

\* case "union": the try blocks from member i on.  The member's validator
\* is generated into create(), where allowAdditionalProperties is not
\* declared; a ValidationError of the block is dropped, anything else
\* thrown goes on; after the last block the function returns nothing.
SanitizeUnion(members, i, v, path) ==
  IF i > Len(members) THEN Value(Undef)
  ELSE LET at == Append(path, IndexStr(i - 1))
           c == Check(members[i], v, Unbound, at)
           r == IF c.st = "ok" THEN Sanitize(members[i], v, at) ELSE Thrown(c)
       IN IF r.st = "fail" THEN SanitizeUnion(members, i + 1, v, path) ELSE r

\* generateTypeSanitizer(type, value, path), evaluated on the value v.
Sanitize(type, v, path) ==
  CASE type.kind = "alias" ->
         IF type.name \notin Names THEN Thrown(Fault("ReferenceError", <<>>))
         ELSE CreateBinding(type.name, v)
    [] type.kind = "array" ->
         IF v.k # "array" THEN Thrown(Fault("TypeError", <<>>))
         ELSE SanitizeItems(type.type, v.items, 1, Append(path, "__item__"))
    [] type.kind = "object" -> SanitizeObject(type.properties, v, path)
    [] type.kind = "union" -> SanitizeUnion(type.types, 1, v, path)
    [] OTHER -> Value(v)

\* CreateBinding as it would be without the call of validate.
CreateBindingUnvalidated(name, v) == Sanitize(TypeOf(name), v, <<name>>)

\* The create method of a binding: validate with additional properties
\* allowed and no catcher, then the sanitizer's value.
CreateBinding(name, v) ==
  LET o == ValidateBinding(name, v, FALSE, "true")
  IN CASE o.ret = "raise" -> Thrown(o)
       [] o.ret = "false" -> Thrown(Fail(<<>>, "", "", <<>>))
       [] OTHER -> Sanitize(TypeOf(name), v, <<name>>)

(* ---------------------------------------------------------------- inputs *)

RECURSIVE Objects(_)

\* What the property a of an input object may hold: a number, a string or
\* an object nested up to depth n.
Inner(n) == {Num5, StrX} \cup (IF n = 0 THEN {} ELSE Objects(n))

\* The input objects nested up to depth n: the keys a, b and c, each
\* present or not, written in that order.
Objects(n) ==
  { Obj((IF a = Undef THEN <<>> ELSE << <<"a", a>> >>)
        \o (IF b THEN << <<"b", Num5>> >> ELSE <<>>)
        \o (IF c THEN << <<"c", Num5>> >> ELSE <<>>)) :
    a \in {Undef} \cup Inner(n - 1), b \in BOOLEAN, c \in BOOLEAN }

\* The elements of the input arrays.
Elements ==
  { Num5, Obj(<<>>), Obj(<< <<"a", Num5>> >>),
    Obj(<< <<"a", Num5>>, <<"b", Num5>> >>),
    Obj(<< <<"a", Num5>>, <<"c", Num5>> >>) }

\* The input arrays: up to MaxLen elements.
Arrays ==
  { Arr(items) : items \in UNION { [1..n -> Elements] : n \in 0..MaxLen } }

\* The values handed to validate and create.
Values ==
  {Undef, Null, True, Num0, Num5, StrX, Str0} \cup Objects(MaxDepth) \cup Arrays

(* --------------------------------------------------------- state machine *)

\* What a call of validate did: ret is "true", "false" or "raise".
NoValidate ==
  [ret |-> "none", st |-> "", msg |-> NoMessage, fault |-> "", trace |-> <<>>]

\* What a call of create did.
NoCreate == [st |-> "", value |-> Undef, msg |-> NoMessage, fault |-> ""]

\* The options of a call that passes none.
NoOptions == [errorCatcher |-> FALSE, allow |-> "unset"]

\* The module is loaded and a caller holds a fresh catcher
\* (createErrorCatcher) and a value for the binding named target.
InitWith(declared, names) ==
  /\ types = declared
  /\ target \in names
  /\ input \in Values
  /\ phase = "idle"
  /\ options = NoOptions
  /\ catcher = [error |-> NoMessage]
  /\ vres = NoValidate
  /\ cres = NoCreate
  /\ created = Undef

Init == InitWith(TypesDeclared, {TypesDeclared[i].name : i \in 1..Len(TypesDeclared)})

\* The same module generated from either order of the entries, called on
\* the two names that refer to each other.
InitOrders ==
  \/ InitWith(TypesDeclared, {"A", "B"})
  \/ InitWith(TypesReversed, {"A", "B"})

\* target.validate(input, { errorCatcher, allowAdditionalProperties })
Validate(errorCatcher, allow) ==
  /\ phase = "idle"
  /\ LET o == ValidateBinding(target, input, errorCatcher, allow)
     IN /\ vres' = o
        /\ catcher' = IF o.ret = "false" THEN [error |-> o.msg] ELSE catcher
  /\ options' = [errorCatcher |-> errorCatcher, allow |-> allow]
  /\ phase' = "validated"
  /\ UNCHANGED <<types, target, input, cres, created>>

\* target.create(input)
Create ==
  /\ phase \in {"idle", "validated"}
  /\ cres' = CreateBinding(target, input)
  /\ phase' = "created"
  /\ UNCHANGED <<types, target, input, options, catcher, vres, created>>

\* target.create(r) for the value r that create returned.
CreateAgain ==
  /\ phase = "created"
  /\ cres.st = "ok"
  /\ created' = cres.value
  /\ cres' = CreateBinding(target, cres.value)
  /\ phase' = "recreated"
  /\ UNCHANGED <<types, target, input, options, catcher, vres>>

Next ==
  \/ \E errorCatcher \in BOOLEAN, allow \in Flags : Validate(errorCatcher, allow)
  \/ Create
  \/ CreateAgain

Spec == Init /\ [][Next]_vars

SpecOrders == InitOrders /\ [][Next]_vars

(* ------------------------------------------------ vocabulary of the claims *)

\* The value passes the named binding's check with additional properties
\* refused: every object the check meets owns declared keys only.
StrictOK(name, v) == Check(TypeOf(name), v, "false", <<name>>).st = "ok"

\* validate(v, { allowAdditionalProperties: true }) of the named binding.
Lenient(name, v) == ValidateBinding(name, v, FALSE, "true")

RECURSIVE Resolves(_, _)
\* Every alias met from the type on names a declared type.
Resolves(type, seen) ==
  CASE type.kind = "alias" ->
         /\ type.name \in Names
         /\ \/ type.name \in seen
            \/ Resolves(TypeOf(type.name), seen \cup {type.name})
    [] type.kind = "array" -> Resolves(type.type, seen)
    [] type.kind = "object" ->
         \A i \in 1..Len(type.properties) :
           Resolves(type.properties[i].type, seen)
    [] type.kind = "union" ->
         \A i \in 1..Len(type.types) : Resolves(type.types[i], seen)
    [] OTHER -> TRUE

RECURSIVE UnionFree(_, _)
\* No union is met from the type on, aliases followed.
UnionFree(type, seen) ==
  CASE type.kind = "alias" ->
         \/ type.name \notin Names
         \/ type.name \in seen
         \/ UnionFree(TypeOf(type.name), seen \cup {type.name})
    [] type.kind = "array" -> UnionFree(type.type, seen)
    [] type.kind = "object" ->
         \A i \in 1..Len(type.properties) :
           UnionFree(type.properties[i].type, seen)
    [] type.kind = "union" -> FALSE
    [] OTHER -> TRUE

RECURSIVE Undeclared(_, _)
\* The value holds, where the type describes an object outside any union
\* member, an object with a key that the object type does not declare.
Undeclared(type, v) ==
  CASE type.kind = "alias" ->
         type.name \in Names /\ Undeclared(TypeOf(type.name), v)
    [] type.kind = "array" ->
         v.k = "array" /\ \E i \in 1..Len(v.items) : Undeclared(type.type, v.items[i])
    [] type.kind = "object" ->
         /\ ~NotAnObject(v)
         /\ \/ \E i \in 1..Len(ObjectKeys(v)) :
                 \A j \in 1..Len(type.properties) :
                   type.properties[j].name # ObjectKeys(v)[i]
            \/ \E j \in 1..Len(type.properties) :
                 Undeclared(type.properties[j].type,
                            Get(v, type.properties[j].name))
    [] OTHER -> FALSE

\* The paths of the union members tried by the check itself (not inside a
\* member), in the order they were tried.
Trials(trace) ==
  LET own == SelectSeq(trace, LAMBDA e : e.ev = "trial" /\ e.scope = 0)
  IN [i \in 1..Len(own) |-> own[i].path]

\* The paths of the first j members of the target's union.
MemberPaths(j) == [i \in 1..j |-> <<target, IndexStr(i - 1)>>]

\* What member i of the target's union does with the input on its own.
Member(i, allow) ==
  Check(TypeOf(target).types[i], input, allow, <<target, IndexStr(i - 1)>>)

\* The number of calls an alias made in the check.
Calls(trace) == Len(SelectSeq(trace, LAMBDA e : e.ev = "call"))

RECURSIVE Chain(_)
\* {}, {a: {}}, {a: {a: {}}}, ...: d objects, one inside the other.
Chain(d) == IF d = 1 THEN Obj(<<>>) ELSE Obj(<< <<"a", Chain(d - 1)>> >>)

KeyProblem == "does not allow key"

(* ------------------------------------------------------------------ C1 *)

\* C1: for a named object type, create on a value that validate accepts
\* with additional properties allowed returns a value, and every object of
\* it that an object type describes has declared keys only.
C1_Stripping ==
  (/\ phase = "created"
   /\ TypeOf(target).kind = "object"
   /\ Lenient(target, input).ret = "true")
    => (cres.st = "ok" /\ StrictOK(target, cres.value))

\* The part of C1 that the generated code keeps: whatever create does
\* return passes the binding's own check with additional properties
\* refused, also where the input had undeclared keys.
C1_Stripped ==
  (phase \in {"created", "recreated"} /\ cres.st = "ok")
    => StrictOK(target, cres.value)

\* create returned for an input with an undeclared key at the top and
\* another one level down.
C1_Witness ==
  /\ phase = "created"
  /\ target = "Nested"
  /\ cres.st = "ok"
  /\ Get(input, "c") = Num5
  /\ Get(Get(input, "a"), "c") = Num5
  /\ Get(cres.value, "c") = Undef
  /\ Get(Get(cres.value, "a"), "c") = Undef

(* ------------------------------------------------------------------ C2 *)

C3_Original ==
  phase = "validated" =>
    /\ Falsy(options.allow) =>
         \A i \in 1..Len(vres.trace) :
           vres.trace[i].ev = "key" =>
             /\ vres.st = "fail"
             /\ vres.msg.problem = KeyProblem
    /\ options.allow = "true" =>
         /\ \A i \in 1..Len(vres.trace) : vres.trace[i].ev # "key"
         /\ vres.msg.problem # KeyProblem

\* C3 amended: with the flag false or unset, an object with an undeclared
\* key met outside every union member (at the top, in a property, in an
\* array element, behind an alias) ends the check there, with the message
\* that names the object's path and the key, and a value that holds such
\* an object is never accepted; met inside a union member it only ends
\* that member, and what the check does next, if anything, is to try
\* another member; with the flag true no undeclared key is found at any
\* level and no failure names one.
C3_Amended ==
  phase = "validated" =>
    /\ Falsy(options.allow) =>
         /\ \A i \in 1..Len(vres.trace) :
              (vres.trace[i].ev = "key" /\ vres.trace[i].scope = 0) =>
                /\ i = Len(vres.trace)
                /\ vres.st = "fail"
                /\ vres.msg = Message(vres.trace[i].path, KeyProblem,
                                      vres.trace[i].key)
         /\ Undeclared(TypeOf(target), input) => vres.st = "fail"
         /\ \A i \in 1..(Len(vres.trace) - 1) :
              (vres.trace[i].ev = "key" /\ vres.trace[i].scope > 0) =>
                vres.trace[i + 1].ev = "trial"
    /\ options.allow = "true" =>
         /\ \A i \in 1..Len(vres.trace) : vres.trace[i].ev # "key"
         /\ vres.msg.problem # KeyProblem

\* The flag is unset and the undeclared key sits in an array element,
\* behind an alias: validate fails and the catcher names the key.
C3_Witness ==
  /\ phase = "validated"
  /\ target = "List"
  /\ options = [errorCatcher |-> TRUE, allow |-> "unset"]
  /\ vres.ret = "false"
  /\ catcher.error = Message(<<"Obj">>, KeyProblem, "c")
  /\ Len(input.items) = 2

(* ------------------------------------------------------------------ C4 *)

C5_CreateFollowsValidate ==
  phase = "created" =>
    LET o == Lenient(target, input)
    IN /\ cres.st # "ok" <=> o.ret = "raise"
       /\ cres.st # "ok" =>
            (cres.st = o.st /\ cres.msg = o.msg /\ cres.fault = o.fault)

(* ------------------------------------------------------------------ C6 *)

\* C6: a union's members are tried in declared order; the first that
\* passes ends the check with success and nothing after it is tried; when
\* all fail the check fails with the last member's message.
C6_UnionOrder ==
  (phase = "validated" /\ TypeOf(target).kind = "union") =>
    LET n == Len(TypeOf(target).types)
    IN /\ \A j \in 1..n :
            (/\ \A i \in 1..(j - 1) : Member(i, options.allow).st = "fail"
             /\ Member(j, options.allow).st = "ok")
              => (vres.ret = "true" /\ Trials(vres.trace) = MemberPaths(j))
       /\ (n >= 1 /\ \A i \in 1..n : Member(i, options.allow).st = "fail")
            => /\ vres.st = "fail"
               /\ vres.msg = Member(n, options.allow).msg
               /\ Trials(vres.trace) = MemberPaths(n)

\* union(boolean, number) refused "x": both members were tried and the
\* catcher holds the number member's message.
C6_Witness ==
  /\ phase = "validated"
  /\ target = "BoolNum"
  /\ input = StrX
  /\ vres.ret = "false"
  /\ catcher.error = Message(<<"BoolNum", "1">>, "is not a number", "")
  /\ Len(vres.trace) = 2

(* ------------------------------------------------------------------ C7 *)

\* C7: for a value that validates, create returns a value, and create
\* applied to that value succeeds and returns an equal one.
C7_Idempotence ==
  /\ (phase = "created" /\ Lenient(target, input).ret = "true") => cres.st = "ok"
  /\ phase = "recreated" => (cres.st = "ok" /\ cres.value = created)

\* The part of C7 that the generated code keeps: create applied to what
\* create returned succeeds and returns an equal value.
C7_Idempotent ==
  phase = "recreated" => (cres.st = "ok" /\ cres.value = created)

\* The second create ran on a value from which the first had dropped keys.
C7_Witness ==
  /\ phase = "recreated"
  /\ target = "Obj"
  /\ Get(input, "b") = Num5
  /\ Get(input, "c") = Num5
  /\ created # input
  /\ cres.value = created

(* ------------------------------------------------------------------ C8 *)

\* C8: for A = alias(B), B = object{a?: A}, in either order of declaration,
\* validate accepts a chain of d nested objects after one call per level
\* and per name, and create returns an equal chain.
C8_Recursion ==
  \A d \in 1..MaxDepth :
    (target \in {"A", "B"} /\ input = Chain(d)) =>
      /\ phase = "validated" =>
           /\ vres.ret = "true"
           /\ Calls(vres.trace) = 2 * d - (IF target = "A" THEN 1 ELSE 2)
      /\ phase = "created" => (cres.st = "ok" /\ cres.value = input)

\* {a: {a: {}}} was created through A with B declared before A.
C8_Witness ==
  /\ types = TypesReversed
  /\ target = "A"
  /\ input = Chain(3)
  /\ phase = "created"
  /\ vres.ret = "true"
  /\ cres.st = "ok"

(* ------------------------------------------------------------------ C9 *)

\* C9: something thrown that is no ValidationError leaves validate as it
\* is, with or without a catcher, and the catcher untouched; thrown by a
\* union member it ends the union without a further member being tried;
\* thrown in create's validation or in a member's trial of the sanitizer
\* it leaves create.
C9_FaultsEscape ==
  /\ phase = "validated" =>
       /\ vres.st = "fault" => (vres.ret = "raise" /\ catcher.error = NoMessage)
       /\ TypeOf(target).kind = "union" =>
            \A j \in 1..Len(TypeOf(target).types) :
              (/\ \A i \in 1..(j - 1) : Member(i, options.allow).st = "fail"
               /\ Member(j, options.allow).st = "fault")
                => /\ vres.ret = "raise"
                   /\ vres.fault = Member(j, options.allow).fault
                   /\ Trials(vres.trace) = MemberPaths(j)
  /\ phase = "created" =>
       /\ Lenient(target, input).st = "fault" =>
            (cres.st = "fault" /\ cres.fault = Lenient(target, input).fault)
       /\ (Lenient(target, input).ret = "true" /\ TypeOf(target).kind = "union") =>
            \A j \in 1..Len(TypeOf(target).types) :
              (/\ \A i \in 1..(j - 1) : Member(i, Unbound).st = "fail"
               /\ Member(j, Unbound).st = "fault")
                => (cres.st = "fault" /\ cres.fault = Member(j, Unbound).fault)

\* The first member's alias names nothing, the second member would accept
\* the number: validate raised the ReferenceError past the catcher.
C9_Witness ==
  /\ phase = "validated"
  /\ target = "Dangling"
  /\ input = Num5
  /\ options.errorCatcher
  /\ vres.ret = "raise"
  /\ vres.fault = "ReferenceError"
  /\ catcher.error = NoMessage
  /\ Trials(vres.trace) = << <<"Dangling", "0">> >>

(* ----------------------------------------------------------------- C10 *)

\* C10: for a union, create on a value that validate accepts with
\* additional properties allowed returns that value sanitized by the first
\* member that accepts it under the same policy.
C10_SameMember ==
  (/\ phase = "created"
   /\ TypeOf(target).kind = "union"
   /\ Lenient(target, input).ret = "true")
    => \E j \in 1..Len(TypeOf(target).types) :
         /\ \A i \in 1..(j - 1) : Member(i, "true").st # "ok"
         /\ Member(j, "true").st = "ok"
         /\ cres = Sanitize(TypeOf(target).types[j], input,
                            <<target, IndexStr(j - 1)>>)
         /\ cres.st = "ok"

====
